---- MODULE Spec2Model ----
(***************************************************************************)
(* Model of the spreadsheet <-> RDF conversion core of voc4cat:            *)
(*   convert.py : split_and_tidy, extract_concepts_and_collections,        *)
(*                excel_to_rdf, rdf_to_excel                               *)
(*   utils.py   : get_template_version, is_supported_template,             *)
(*                split_and_tidy                                           *)
(* One behaviour is one call of one of these entry points (variable op).   *)
(* The workbook content is fixed in Init; call arguments and the answers   *)
(* of external collaborators are drawn where the code reads them.          *)
(***************************************************************************)
EXTENDS Integers, Sequences, FiniteSets, TLC

VARIABLES
    op,                 \* entry point called in this behaviour
    pc,                 \* position inside the call
    sheetnames,         \* wb.sheetnames of the loaded workbook
    J11,                \* value of cell J11 of sheet "Introduction"
    header,             \* whether cells B1..B11 pass ConceptScheme validation
    s,                  \* worksheet rows: column A and the row's validity
    args,               \* arguments of the call
    cs,                 \* excel_to_rdf: the ConceptScheme built from the header
    row,                \* extract_concepts_and_collections: loop position
    process_concept,    \* extract_concepts_and_collections: flag
    process_collection, \* extract_concepts_and_collections: flag
    concepts,           \* extract_concepts_and_collections: local list
    collections,        \* extract_concepts_and_collections: local list
    extracted,          \* excel_to_rdf: value returned by the extraction
    to_graph_calls,     \* number of calls of Vocabulary.to_graph()
    files,              \* destinations written by serialize(destination=..)
    r,                  \* rdf_to_excel: answer of pyshacl.validate
    validate_calls,     \* number of calls of pyshacl.validate
    cell_value,         \* split_and_tidy: the argument
    tokens,             \* split_and_tidy: the value returned
    returned,           \* value returned by the entry point
    error               \* exception that ended the entry point

vars == <<op, pc, sheetnames, J11, header, s, args, cs, row, process_concept,
          process_collection, concepts, collections, extracted,
          to_graph_calls, files, r, validate_calls, cell_value, tokens,
          returned, error>>

(***************************************************************************)
(* Bounds                                                                  *)
(***************************************************************************)
MaxRows == 4
MaxLen == 4

(***************************************************************************)
(* Values                                                                  *)
(***************************************************************************)
None == "None"
NoText == <<"None">>          \* None where a text (a sequence) is expected
NoReturn == [kind |-> "no_return"]
NoError == [type |-> "none"]
NoResult == <<FALSE, "none", "none">>

Range(f) == {f[i] : i \in DOMAIN f}
Min(S) == CHOOSE x \in S : \A y \in S : x <= y
Max(S) == CHOOSE x \in S : \A y \in S : x >= y

RDF_FILE_ENDINGS == <<"ttl", "rdf", "xml", "json-ld", "json", "nt", "n3">>
EXCEL_FILE_ENDINGS == <<"xlsx">>
KNOWN_TEMPLATE_VERSIONS == <<"0.4.3">>
PROFILES == {"vocpub"}

Ops == {"excel_to_rdf", "rdf_to_excel", "is_supported_template",
        "split_and_tidy"}

\* file names offered to the entry points, and what name.endswith sees
RdfInputFiles == {"voc.xlsx", "voc.txt", "voc.ttl", "voc.rdf", "voc.xml",
                  "voc.json-ld", "voc.json", "voc.nt", "voc.n3"}
ExcelInputFiles == {"voc.xlsx", "voc.ttl"}
Ending(f) ==
    CASE f = "voc.xlsx" -> "xlsx"
      [] f = "voc.ttl" -> "ttl"
      [] f = "voc.rdf" -> "rdf"
      [] f = "voc.xml" -> "xml"
      [] f = "voc.json-ld" -> "json-ld"
      [] f = "voc.json" -> "json"
      [] f = "voc.nt" -> "nt"
      [] f = "voc.n3" -> "n3"
      [] OTHER -> "txt"
EndsWith(f, endings) == Ending(f) \in Range(endings)
WithSuffixTtl(f) == "voc.ttl"

Versions == {None, "0.4.3", "0.4.2"}
SheetNameArgs == {None, "Concepts"}
OutputTypes == {"file", "string", "graph"}
OutputPaths == {None, "out.ttl"}
ProfileArgs == {"vocpub", "sdo"}
ValidatorResults == {<<TRUE, "g0", "Conforms: True">>,
                     <<FALSE, "g1", "report1">>,
                     <<FALSE, "g2", "report2">>}

\* a worksheet row: its column-A cell and whether the domain model accepts
\* the row (only read for rows the extractor builds an entity from)
RowKinds == {[A |-> None, valid |-> TRUE],
             [A |-> "Concept URI", valid |-> TRUE],
             [A |-> "Collection URI", valid |-> TRUE],
             [A |-> "u1", valid |-> TRUE],
             [A |-> "u1", valid |-> FALSE]}
Sheets == UNION {[1..n -> RowKinds] : n \in 0..MaxRows}

Alphabet == {"a", "b", " ", ","}
Strings == UNION {[1..n -> Alphabet] : n \in 0..MaxLen}

(***************************************************************************)
(* Field Splitter                                                          *)
(***************************************************************************)
\* str.strip(): without leading and trailing whitespace
Strip(t) ==
    LET keep == {i \in 1..Len(t) : t[i] # " "}
    IN  IF keep = {} THEN <<>> ELSE SubSeq(t, Min(keep), Max(keep))

\* str.split(","): one token more than there are commas
RECURSIVE Split(_)
Split(t) ==
    LET commas == {i \in 1..Len(t) : t[i] = ","}
    IN  IF commas = {} THEN <<t>>
        ELSE <<SubSeq(t, 1, Min(commas) - 1)>>
             \o Split(SubSeq(t, Min(commas) + 1, Len(t)))

StripEach(ts) == [i \in 1..Len(ts) |-> Strip(ts[i])]
NonEmpty(t) == t # <<>>

\* convert.py
convert_split_and_tidy(v) ==
    IF v # NoText THEN StripEach(Split(Strip(v))) ELSE NoText

\* utils.py
utils_split_and_tidy(v) ==
    IF v = <<>> \/ v = NoText THEN <<>>
    ELSE SelectSeq(StripEach(Split(Strip(v))), NonEmpty)

(***************************************************************************)
(* Template Version Gate                                                   *)
(***************************************************************************)
UndeterminedError ==
    [type |-> "Voc4catError",
     msg |-> "The version of the Excel template cannot be determined."]
UnsupportedError(template_version) ==
    [type |-> "Voc4catError",
     msg |-> "Unsupported template version.",
     supported |-> KNOWN_TEMPLATE_VERSIONS,
     supplied |-> template_version]

\* mutant: a missing sheet yields no version instead of an error
get_template_version_NoRaise(names, j11) ==
    IF "Introduction" \notin names
    THEN [raised |-> FALSE, value |-> None]
    ELSE [raised |-> FALSE, value |-> j11]

get_template_version(names, j11) ==
    IF "Introduction" \notin names
    THEN [raised |-> TRUE, error |-> UndeterminedError]
    ELSE [raised |-> FALSE, value |-> j11]

(***************************************************************************)
(* Row Extractor                                                           *)
(***************************************************************************)
Concept(i) == [type |-> "Concept", row |-> i, uri |-> s[i].A]
Collection(i) == [type |-> "Collection", row |-> i, uri |-> s[i].A]
\* mutant: the row is reported as a zero-based index
ConceptError_ZeroBased(i) ==
    [type |-> "ConversionError", msg |-> "Concept processing error",
     row |-> i - 1]
ConceptError(i) ==
    [type |-> "ConversionError", msg |-> "Concept processing error", row |-> i]
CollectionError(i) ==
    [type |-> "ConversionError", msg |-> "Collection processing error",
     row |-> i]
\* mutant: the entity is put at the head of the list
AppendEntity_Prepend(list, c) == <<c>> \o list
AppendEntity(list, c) == Append(list, c)

(***************************************************************************)
(* Initial states: the workbook (or the text cell) the call is given       *)
(***************************************************************************)
wbVars == <<sheetnames, J11, header, s>>
loopVars == <<row, process_concept, process_collection, concepts, collections>>
outVars == <<to_graph_calls, files>>
rdfVars == <<r, validate_calls>>
splitVars == <<cell_value, tokens>>

Init ==
    /\ op \in Ops
    /\ pc = "start"
    /\ sheetnames \in
         CASE op = "excel_to_rdf" ->
                {{"vocabulary"}, {"vocabulary", "Introduction"}}
           [] op = "is_supported_template" ->
                SUBSET {"vocabulary", "Introduction"}
           [] OTHER -> {{}}
    /\ J11 \in IF "Introduction" \in sheetnames THEN Versions ELSE {None}
    /\ header \in IF op = "excel_to_rdf" THEN {"valid", "invalid"}
                  ELSE {"valid"}
    /\ s \in IF op = "excel_to_rdf" THEN Sheets ELSE {<<>>}
    /\ cell_value \in IF op = "split_and_tidy" THEN Strings \cup {NoText}
                      ELSE {NoText}
    /\ args = [file_to_convert_path |-> None]
    /\ cs = None
    /\ row = 0
    /\ process_concept = FALSE
    /\ process_collection = FALSE
    /\ concepts = <<>>
    /\ collections = <<>>
    /\ extracted = NoReturn
    /\ to_graph_calls = 0
    /\ files = {}
    /\ r = NoResult
    /\ validate_calls = 0
    /\ tokens = NoText
    /\ returned = NoReturn
    /\ error = NoError

Raise(e) ==
    /\ pc' = "raised"
    /\ error' = e

(***************************************************************************)
(* excel_to_rdf                                                            *)
(***************************************************************************)
\* convert.py 91-96: extension check, load_workbook, sheet selection
ExcelStart ==
    /\ op = "excel_to_rdf"
    /\ pc = "start"
    /\ \E f \in ExcelInputFiles, sheet_name \in SheetNameArgs :
         /\ args' = [file_to_convert_path |-> f, sheet_name |-> sheet_name]
         /\ IF ~EndsWith(f, EXCEL_FILE_ENDINGS)
            THEN Raise([type |-> "ValueError",
                        msg |-> "Files for conversion to RDF must be Excel files ending .xlsx"])
            ELSE IF (IF sheet_name = None THEN "vocabulary" ELSE sheet_name)
                    \notin sheetnames
            THEN Raise([type |-> "KeyError"])
            ELSE pc' = "header" /\ error' = error
    /\ UNCHANGED <<op, wbVars, cs, loopVars, extracted, outVars, rdfVars,
                   splitVars, returned>>

\* mutant: a header that fails validation is swallowed
ReadHeader_Swallow ==
    /\ op = "excel_to_rdf"
    /\ pc = "header"
    /\ cs' = "ConceptScheme"
    /\ pc' = "extract"
    /\ row' = 1
    /\ UNCHANGED <<op, wbVars, args, process_concept, process_collection,
                   concepts, collections, extracted, outVars, rdfVars,
                   splitVars, returned, error>>

\* convert.py 98-117: ConceptScheme from B1..B11, then the extraction starts
ReadHeader ==
    /\ op = "excel_to_rdf"
    /\ pc = "header"
    /\ IF header = "valid"
       THEN /\ cs' = "ConceptScheme"
            /\ pc' = "extract"
            /\ row' = 1
            /\ error' = error
       ELSE /\ Raise([type |-> "ConversionError",
                      msg |-> "ConceptScheme processing error"])
            /\ UNCHANGED <<cs, row>>
    /\ UNCHANGED <<op, wbVars, args, process_concept, process_collection,
                   concepts, collections, extracted, outVars, rdfVars,
                   splitVars, returned>>

InLoop ==
    /\ op = "excel_to_rdf"
    /\ pc = "extract"
    /\ row \in 1..Len(s)

\* convert.py 40-41
ExtractConceptSentinel ==
    /\ InLoop
    /\ s[row].A = "Concept URI"
    /\ process_concept' = TRUE
    /\ row' = row + 1
    /\ UNCHANGED <<op, pc, wbVars, args, cs, process_collection, concepts,
                   collections, extracted, outVars, rdfVars, splitVars,
                   returned, error>>

\* convert.py 42-44
ExtractCollectionSentinel ==
    /\ InLoop
    /\ s[row].A # "Concept URI"
    /\ s[row].A = "Collection URI"
    /\ process_concept' = FALSE
    /\ process_collection' = TRUE
    /\ row' = row + 1
    /\ UNCHANGED <<op, pc, wbVars, args, cs, concepts, collections, extracted,
                   outVars, rdfVars, splitVars, returned, error>>

\* mutant: an empty first-column cell ends the concepts section
ExtractConceptRow_EmptyTerminates ==
    /\ InLoop
    /\ s[row].A \notin {"Concept URI", "Collection URI"}
    /\ process_concept
    /\ IF s[row].A = None
       THEN /\ UNCHANGED <<concepts, pc, error>>
            /\ row' = row + 1
            /\ process_concept' = FALSE
       ELSE IF s[row].valid
       THEN /\ concepts' = AppendEntity(concepts, Concept(row))
            /\ row' = row + 1
            /\ UNCHANGED <<pc, error, process_concept>>
       ELSE /\ Raise(ConceptError(row))
            /\ UNCHANGED <<concepts, row, process_concept>>
    /\ UNCHANGED <<op, wbVars, args, cs, process_collection,
                   collections, extracted, outVars, rdfVars, splitVars,
                   returned>>

\* convert.py 45-62
ExtractConceptRow ==
    /\ InLoop
    /\ s[row].A \notin {"Concept URI", "Collection URI"}
    /\ process_concept
    /\ IF s[row].A = None
       THEN UNCHANGED <<concepts, pc, error>> /\ row' = row + 1
       ELSE IF s[row].valid
       THEN /\ concepts' = AppendEntity(concepts, Concept(row))
            /\ row' = row + 1
            /\ UNCHANGED <<pc, error>>
       ELSE /\ Raise(ConceptError(row))
            /\ UNCHANGED <<concepts, row>>
    /\ UNCHANGED <<op, wbVars, args, cs, process_concept, process_collection,
                   collections, extracted, outVars, rdfVars, splitVars,
                   returned>>

\* convert.py 63-77
ExtractCollectionRow ==
    /\ InLoop
    /\ s[row].A \notin {"Concept URI", "Collection URI"}
    /\ ~process_concept
    /\ process_collection
    /\ IF s[row].A = None
       THEN UNCHANGED <<collections, pc, error>> /\ row' = row + 1
       ELSE IF s[row].valid
       THEN /\ collections' = AppendEntity(collections, Collection(row))
            /\ row' = row + 1
            /\ UNCHANGED <<pc, error>>
       ELSE /\ Raise(CollectionError(row))
            /\ UNCHANGED <<collections, row>>
    /\ UNCHANGED <<op, wbVars, args, cs, process_concept, process_collection,
                   concepts, extracted, outVars, rdfVars, splitVars, returned>>

\* mutant: a non-empty row before the first sentinel is parsed as a Concept
ExtractScanning_Builds ==
    /\ InLoop
    /\ s[row].A \notin {"Concept URI", "Collection URI"}
    /\ ~process_concept
    /\ ~process_collection
    /\ concepts' = IF s[row].A = None THEN concepts
                   ELSE AppendEntity(concepts, Concept(row))
    /\ row' = row + 1
    /\ UNCHANGED <<op, pc, wbVars, args, cs, process_concept,
                   process_collection, collections, extracted,
                   outVars, rdfVars, splitVars, returned, error>>

\* convert.py 78-79 and the fall-through: before any sentinel nothing is built
ExtractScanning ==
    /\ InLoop
    /\ s[row].A \notin {"Concept URI", "Collection URI"}
    /\ ~process_concept
    /\ ~process_collection
    /\ row' = row + 1
    /\ UNCHANGED <<op, pc, wbVars, args, cs, process_concept,
                   process_collection, concepts, collections, extracted,
                   outVars, rdfVars, splitVars, returned, error>>

\* convert.py 81 and 117: end of the column, the two lists are returned
ExtractReturn ==
    /\ op = "excel_to_rdf"
    /\ pc = "extract"
    /\ row = Len(s) + 1
    /\ extracted' = [kind |-> "tuple", concepts |-> concepts,
                     collections |-> collections]
    /\ pc' = "vocabulary"
    /\ UNCHANGED <<op, wbVars, args, cs, loopVars, outVars, rdfVars,
                   splitVars, returned, error>>

\* convert.py 119-133: Vocabulary, to_graph, serialize
WriteOut ==
    /\ op = "excel_to_rdf"
    /\ pc = "vocabulary"
    /\ \E output_type \in OutputTypes, output_file_path \in OutputPaths :
         LET v == [concept_scheme |-> cs, concepts |-> extracted.concepts,
                   collections |-> extracted.collections]
             dest == IF output_file_path # None THEN output_file_path
                     ELSE WithSuffixTtl(args.file_to_convert_path)
         IN  /\ to_graph_calls' = to_graph_calls + 1
             /\ IF output_type = "graph"
                THEN /\ returned' = [kind |-> "graph", value |-> v]
                     /\ files' = files
                ELSE IF output_type = "string"
                THEN /\ returned' = [kind |-> "string", value |-> v]
                     /\ files' = files
                ELSE /\ files' = files \cup {dest}
                     /\ returned' = [kind |-> "dest", value |-> dest]
    /\ pc' = "done"
    /\ UNCHANGED <<op, wbVars, args, cs, loopVars, extracted, rdfVars,
                   splitVars, error>>

(***************************************************************************)
(* rdf_to_excel                                                            *)
(***************************************************************************)
\* mutant: the results graph is embedded instead of the report text
ConformanceError_Graph(profile, res) ==
    [type |-> "ConversionError",
     msg |-> "The file you supplied is not valid according to the profile",
     profile |-> profile,
     report |-> res[2]]

ConformanceError(profile, res) ==
    [type |-> "ConversionError",
     msg |-> "The file you supplied is not valid according to the profile",
     profile |-> profile,
     report |-> res[3]]

\* convert.py 136-180
RdfToExcel ==
    /\ op = "rdf_to_excel"
    /\ pc = "start"
    /\ \E f \in RdfInputFiles, profile \in ProfileArgs,
          output_file_path \in {None, "out.xlsx"} :
         /\ args' = [file_to_convert_path |-> f, profile |-> profile,
                     output_file_path |-> output_file_path]
         /\ IF ~EndsWith(f, RDF_FILE_ENDINGS)
            THEN /\ Raise([type |-> "ValueError",
                           msg |-> "Files for conversion to Excel must end with one of the RDF file formats"])
                 /\ UNCHANGED <<r, validate_calls, returned>>
            ELSE IF profile \notin PROFILES
            THEN /\ Raise([type |-> "ValueError",
                           msg |-> "The profile chosen for conversion must be one of"])
                 /\ UNCHANGED <<r, validate_calls, returned>>
            ELSE \E res \in ValidatorResults :
                   /\ r' = res
                   /\ validate_calls' = validate_calls + 1
                   /\ IF ~res[1]
                      THEN Raise(ConformanceError(profile, res))
                           /\ returned' = returned
                      ELSE /\ pc' = "done"
                           /\ returned' = [kind |-> "value", value |-> None]
                           /\ error' = error
    /\ UNCHANGED <<op, wbVars, cs, loopVars, extracted, outVars, splitVars>>

(***************************************************************************)
(* is_supported_template                                                   *)
(***************************************************************************)
\* utils.py 60-66
IsSupportedTemplate ==
    /\ op = "is_supported_template"
    /\ pc = "start"
    /\ LET template_version == get_template_version(sheetnames, J11)
       IN  IF template_version.raised
           THEN Raise(template_version.error) /\ returned' = returned
           ELSE IF template_version.value \notin Range(KNOWN_TEMPLATE_VERSIONS)
           THEN Raise(UnsupportedError(template_version.value))
                /\ returned' = returned
           ELSE /\ pc' = "done"
                /\ returned' = [kind |-> "value", value |-> "True"]
                /\ error' = error
    /\ UNCHANGED <<op, wbVars, args, cs, loopVars, extracted, outVars,
                   rdfVars, splitVars>>

(***************************************************************************)
(* split_and_tidy                                                          *)
(***************************************************************************)
\* convert.py 28-29, the function the Row Extractor calls
ConvertSplitAndTidy ==
    /\ op = "split_and_tidy"
    /\ pc = "start"
    /\ tokens' = convert_split_and_tidy(cell_value)
    /\ pc' = "convert_done"
    /\ UNCHANGED <<op, wbVars, args, cs, loopVars, extracted, outVars,
                   rdfVars, cell_value, returned, error>>

\* utils.py 69-75
UtilsSplitAndTidy ==
    /\ op = "split_and_tidy"
    /\ pc = "start"
    /\ tokens' = utils_split_and_tidy(cell_value)
    /\ pc' = "utils_done"
    /\ UNCHANGED <<op, wbVars, args, cs, loopVars, extracted, outVars,
                   rdfVars, cell_value, returned, error>>

Next ==
    \/ ExcelStart
    \/ ReadHeader
    \/ ExtractConceptSentinel
    \/ ExtractCollectionSentinel
    \/ ExtractConceptRow
    \/ ExtractCollectionRow
    \/ ExtractScanning
    \/ ExtractReturn
    \/ WriteOut
    \/ RdfToExcel
    \/ IsSupportedTemplate
    \/ ConvertSplitAndTidy
    \/ UtilsSplitAndTidy

Spec == Init /\ [][Next]_vars

(***************************************************************************)
(* What the worksheet says, read off the rows alone                        *)
(***************************************************************************)
Sentinels == {"Concept URI", "Collection URI"}
SentinelsBefore(i) == {j \in 1..(i - 1) : s[j].A \in Sentinels}
\* the section a row lies in: the one opened by the last sentinel above it
SectionOf(i) ==
    IF SentinelsBefore(i) = {} THEN "none"
    ELSE IF s[Max(SentinelsBefore(i))].A = "Concept URI" THEN "Concept"
    ELSE "Collection"
\* rows after the first sentinel with a non-empty, non-sentinel first cell
DataRows ==
    {i \in 1..Len(s) : /\ s[i].A \notin Sentinels \cup {None}
                       /\ SentinelsBefore(i) # {}}
FailingRows == {i \in DataRows : ~s[i].valid}
Terminated == pc \in {"raised", "done"}
Entities == Range(concepts) \cup Range(collections)
RowOrdered(list) ==
    \A i, j \in 1..Len(list) : (i < j) <=> (list[i].row < list[j].row)

(***************************************************************************)
(* Properties                                                              *)
(***************************************************************************)

\* C1: when the extraction succeeds, the concepts and the collections it
\* returns are each in strictly increasing worksheet row order, and no row
\* yields more than one entity.
C1_RowOrder ==
    extracted # NoReturn =>
        /\ RowOrdered(extracted.concepts)
        /\ RowOrdered(extracted.collections)
        /\ \A c \in Range(extracted.concepts),
              k \in Range(extracted.collections) : c.row # k.row

C1_Witness ==
    /\ extracted # NoReturn
    /\ Len(extracted.concepts) >= 2

\* C2 (as claimed): the splitter the Row Extractor calls returns the
\* comma-separated tokens in order, trimmed, and without any empty token.
C2_NoEmptyToken ==
    (op = "split_and_tidy" /\ pc = "convert_done" /\ cell_value # NoText) =>
        /\ \A i \in 1..Len(tokens) : tokens[i] # <<>>
        /\ tokens = SelectSeq(StripEach(Split(cell_value)), NonEmpty)

\* C3: a row with an empty first-column cell builds nothing and leaves the
\* section flags as they are; a data row right below an empty row is still
\* parsed into the entity of the section it lies in.
C3_EmptyRowSkipped ==
    /\ [][(InLoop /\ s[row].A = None) =>
            /\ process_concept' = process_concept
            /\ process_collection' = process_collection
            /\ concepts' = concepts
            /\ collections' = collections
            /\ pc' = "extract"]_vars
    /\ [](\A i \in DataRows :
            (i < row /\ s[i - 1].A = None) =>
               /\ SectionOf(i) = "Concept" =>
                    \E c \in Range(concepts) : c.row = i
               /\ SectionOf(i) = "Collection" =>
                    \E k \in Range(collections) : k.row = i)

C3_Witness ==
    /\ op = "excel_to_rdf"
    /\ \E c \in Range(concepts) :
          s[c.row - 1].A = None /\ SectionOf(c.row) = "Concept"

\* C4 (as claimed): the collections state is entered at most once, only on a
\* cell equal to "Collection URI", and once it was entered no later row is
\* parsed into a Concept.
C4_CollectionsOnce ==
    [][/\ ((~(process_collection /\ ~process_concept)
            /\ (process_collection' /\ ~process_concept')) =>
              (~process_collection /\ s[row].A = "Collection URI"))
       /\ (process_collection => concepts' = concepts)]_vars

\* C5: when some data row fails validation, the call ends in a
\* ConversionError naming the lowest failing row and the section it lies in,
\* and no entities are returned.
C5_FirstFailingRow ==
    (op = "excel_to_rdf" /\ cs # None /\ Terminated /\ FailingRows # {}) =>
        LET m == Min(FailingRows)
        IN  /\ pc = "raised"
            /\ error.type = "ConversionError"
            /\ error.row = m
            /\ error.msg = IF SectionOf(m) = "Concept"
                           THEN "Concept processing error"
                           ELSE "Collection processing error"
            /\ extracted = NoReturn
            /\ returned = NoReturn

C5_Witness ==
    /\ pc = "raised"
    /\ cs # None
    /\ FailingRows # {}
    /\ error.type = "ConversionError"
    /\ \E i, j \in DataRows : i < error.row /\ error.row < j

\* C6: to_graph is called, a value returned and a file written only when the
\* header and every data row are valid; with an invalid header or data row
\* the call ends in a ConversionError without graph, string or file.
C6_Atomic ==
    op = "excel_to_rdf" =>
        /\ (to_graph_calls > 0 \/ files # {} \/ returned # NoReturn) =>
              (header = "valid" /\ FailingRows = {})
        /\ (/\ Terminated
            /\ EndsWith(args.file_to_convert_path, EXCEL_FILE_ENDINGS)
            /\ args.sheet_name = None
            /\ (header = "invalid" \/ FailingRows # {})) =>
              /\ pc = "raised"
              /\ error.type = "ConversionError"
              /\ returned = NoReturn
              /\ files = {}
              /\ to_graph_calls = 0

C6_Witness ==
    /\ op = "excel_to_rdf"
    /\ pc = "raised"
    /\ header = "invalid"
    /\ DataRows # {}
    /\ FailingRows = {}
    /\ error.type = "ConversionError"

\* C7: the gate ends in exactly one of three outcomes, decided by the sheet
\* "Introduction" and its cell J11, and leaves the workbook as it was.
C7_GateOutcomes ==
    /\ []((op = "is_supported_template" /\ pc # "start") =>
            IF "Introduction" \notin sheetnames
            THEN /\ pc = "raised"
                 /\ error.type = "Voc4catError"
                 /\ error.msg =
                      "The version of the Excel template cannot be determined."
                 /\ returned = NoReturn
            ELSE IF J11 # "0.4.3"
            THEN /\ pc = "raised"
                 /\ error.type = "Voc4catError"
                 /\ error.msg = "Unsupported template version."
                 /\ error.supported = <<"0.4.3">>
                 /\ returned = NoReturn
            ELSE /\ pc = "done"
                 /\ returned = [kind |-> "value", value |-> "True"]
                 /\ error = NoError)
    /\ [][op = "is_supported_template" => UNCHANGED wbVars]_vars

C7_Witness ==
    /\ op = "is_supported_template"
    /\ pc = "raised"
    /\ "Introduction" \notin sheetnames

\* C8 (as claimed): for a workbook whose template version is missing or not
\* supported, excel_to_rdf is rejected before the header is read and before
\* any row is extracted.
C8_GateFirst ==
    (/\ op = "excel_to_rdf"
     /\ \/ "Introduction" \notin sheetnames
        \/ J11 \notin Range(KNOWN_TEMPLATE_VERSIONS)) =>
        /\ cs = None
        /\ row = 0
        /\ pc # "done"
        /\ error.type # "ConversionError"

\* C9: for a recognised ending and a known profile the validator is called,
\* and when it reports non-conformance the call ends in a ConversionError
\* carrying the report text and the profile, with no file written.
C9_ConformanceGate ==
    (/\ op = "rdf_to_excel"
     /\ pc # "start"
     /\ EndsWith(args.file_to_convert_path, RDF_FILE_ENDINGS)
     /\ args.profile = "vocpub") =>
        /\ validate_calls = 1
        /\ files = {}
        /\ ~r[1] =>
             /\ pc = "raised"
             /\ error.type = "ConversionError"
             /\ error.report = r[3]
             /\ error.profile = args.profile
             /\ returned = NoReturn

C9_Witness ==
    /\ op = "rdf_to_excel"
    /\ pc = "raised"
    /\ validate_calls = 1
    /\ ~r[1]
    /\ error.report = "report2"

\* C10: no entity comes from a row above the first sentinel or from a
\* sentinel row, and on success the number of entities is the number of
\* non-empty, non-sentinel rows below the first sentinel.
C10_OnlyDataRows ==
    op = "excel_to_rdf" =>
        /\ \A e \in Entities :
              /\ SentinelsBefore(e.row) # {}
              /\ s[e.row].A \notin Sentinels
        /\ extracted # NoReturn =>
              Len(extracted.concepts) + Len(extracted.collections)
                 = Cardinality(DataRows)

C10_Witness ==
    /\ extracted # NoReturn
    /\ Len(s) >= 3
    /\ s[1].A = "u1"
    /\ Len(extracted.concepts) + Len(extracted.collections) >= 1

====
